---- MODULE Spec2Model ----
(***************************************************************************)
(* CLIP_tutorials.ipynb: zero-shot image classification with CLIP.         *)
(*                                                                         *)
(* The notebook is a sequence of code cells that share the kernel's        *)
(* globals.  Each code cell is one action; an exception raised inside a    *)
(* cell keeps the assignments made before the raising statement.           *)
(*                                                                         *)
(*   Spec       the notebook run top to bottom ("Run all"); the first      *)
(*              exception ends the run.                                    *)
(*   SpecCells  the same cells executed one at a time in any order, as     *)
(*              often as wanted, against the same kernel.                  *)
(*                                                                         *)
(* The cells that install and import the libraries and pick the device     *)
(* bind no name the later cells compute with and are left out.             *)
(*                                                                         *)
(* Floating-point numbers are modelled as fixed-point numbers with Scale   *)
(* units per 1.0, plus the value NaN.  A similarity score, the product of  *)
(* two such numbers summed, has Scale * Scale units per 1.0.               *)
(***************************************************************************)
EXTENDS Integers, Sequences, FiniteSets

(* ------------------------------ bounds -------------------------------- *)

\* longest prompt list tried
MaxPrompts == 2
\* fixed-point units per 1.0
Scale == 100

(* ------------------------- floating point ----------------------------- *)

F(x) == [nan |-> FALSE, val |-> x]
NaN == [nan |-> TRUE, val |-> 0]

\* x / y rounded to the nearest integer, y > 0
RoundDiv(x, y) ==
    IF x >= 0 THEN (2 * x + y) \div (2 * y)
              ELSE 0 - ((2 * (0 - x) + y) \div (2 * y))

\* largest r in lo..hi with r * r <= n, by bisection
RECURSIVE ISqrtIn(_, _, _)
ISqrtIn(n, lo, hi) ==
    IF lo >= hi THEN lo
    ELSE LET mid == (lo + hi + 1) \div 2
         IN  IF mid * mid <= n THEN ISqrtIn(n, mid, hi) ELSE ISqrtIn(n, lo, mid - 1)

\* the square root of n >= 0, rounded down
ISqrt(n) == ISqrtIn(n, 0, n)

\* a / b of two floats: x / 0 for x = 0 is NaN (no exception is raised by
\* tensor division); a non-zero numerator over zero does not occur here,
\* since a zero norm means every component is zero
FDiv(a, b) ==
    IF a.nan \/ b.nan \/ b.val = 0 THEN NaN
    ELSE F(RoundDiv(a.val * Scale, b.val))

FMul(a, b) == IF a.nan \/ b.nan THEN NaN ELSE F(a.val * b.val)
FAdd(a, b) == IF a.nan \/ b.nan THEN NaN ELSE F(a.val + b.val)

\* IEEE comparison: false whenever a NaN is involved
FGt(a, b) == ~a.nan /\ ~b.nan /\ a.val > b.val

(* ----------------------------- inputs --------------------------------- *)

\* the components of a raw encoder output: embeddings are taken to have
\* two components, each -1, 0 or 1 before normalisation
RawVals == {0 - 1, 0, 1}
\* what an encoder returns before normalisation: a 2-component vector
RawVecs == {<<x, y>> : x \in RawVals, y \in RawVals}

\* the prompts a user may put in the list; the last one is longer than
\* the tokenizer's context length
LongPrompt == "a photo of a dog dog dog ... dog"
Prompts == {"a photo of a dog", "a photo of a Dog", "a photo of a cat", LongPrompt}

RECURSIVE SeqsUpTo(_, _)
SeqsUpTo(S, n) ==
    IF n = 0 THEN {<<>>}
    ELSE LET shorter == SeqsUpTo(S, n - 1)
         IN  shorter \cup {Append(s, x) : s \in {t \in shorter : Len(t) = n - 1}, x \in S}

PromptLists == SeqsUpTo(Prompts, MaxPrompts)

(* --------------------------- the library ------------------------------ *)

\* clip.tokenize lower-cases and whitespace-cleans a text before encoding
\* it: prompts that differ only in case give the same token row
Lower(p) == IF p = "a photo of a Dog" THEN "a photo of a dog" ELSE p

\* clip.tokenize raises RuntimeError for a text longer than the context
TooLong(p) == p = LongPrompt

TokenRows == {Lower(p) : p \in {q \in Prompts : ~TooLong(q)}}

\* a tokenizer that encodes each distinct cleaned text once
RECURSIVE TokenizeDistinct(_)
TokenizeDistinct(texts) ==
    IF texts = <<>> THEN <<>>
    ELSE LET front == SubSeq(texts, 1, Len(texts) - 1)
             last  == Lower(texts[Len(texts)])
         IN  IF \E i \in 1..Len(front) : Lower(front[i]) = last
             THEN TokenizeDistinct(front)
             ELSE Append(TokenizeDistinct(front), last)

\* clip.tokenize(texts): one token row per text, in order
Tokenize(texts) == [i \in 1..Len(texts) |-> Lower(texts[i])]

\* the pretrained checkpoints clip.load may return: the raw vector the
\* vision encoder gives the example image, and the raw vector the text
\* encoder gives each token row
Checkpoints == [image : RawVecs, text : [TokenRows -> RawVecs]]

\* x.norm(dim=-1, keepdim=True) of one row
Norm(v) == F(ISqrt((v[1] * v[1] + v[2] * v[2]) * Scale * Scale))

\* x / x.norm(dim=-1, keepdim=True) of one row
NormalizeRow(v) ==
    LET n == Norm(v)
    IN  <<FDiv(F(v[1] * Scale), n), FDiv(F(v[2] * Scale), n)>>

\* features / features.norm(dim=-1, keepdim=True): every row by its norm
Normalize(rows) == [i \in 1..Len(rows) |-> NormalizeRow(rows[i])]

\* model.encode_image(image_input): one row for the one image
EncodeImage(w) == <<w.image>>

\* model.encode_text(text_inputs): one row per token row
EncodeText(w, tokens) == [i \in 1..Len(tokens) |-> w.text[tokens[i]]]

Dot(u, v) == FAdd(FMul(u[1], v[1]), FMul(u[2], v[2]))

\* a @ b.T for a of shape (n, d) and b of shape (m, d): shape (n, m)
MatMulT(a, b) == [r \in 1..Len(a) |-> [c \in 1..Len(b) |-> Dot(a[r], b[c])]]

\* ndarray.flatten(): the rows one after the other
RECURSIVE Flatten(_)
Flatten(m) == IF m = <<>> THEN <<>> ELSE Head(m) \o Flatten(Tail(m))

\* zip(a, b): pairs up to the shorter of the two
Zip(a, b) ==
    LET n == IF Len(a) < Len(b) THEN Len(a) ELSE Len(b)
    IN  [i \in 1..n |-> <<a[i], b[i]>>]

\* ndarray.argmax() of a non-empty 1-d array, 0-based: the first NaN if
\* there is one, otherwise the first occurrence of the maximum
RECURSIVE ArgMaxFrom(_, _, _)
ArgMaxFrom(s, i, best) ==
    IF i > Len(s) THEN best - 1
    ELSE IF s[best].nan THEN best - 1
    ELSE IF s[i].nan \/ FGt(s[i], s[best]) THEN ArgMaxFrom(s, i + 1, i)
    ELSE ArgMaxFrom(s, i + 1, best)

\* the scan with >= in place of >: the last occurrence of the maximum
RECURSIVE ArgMaxLastFrom(_, _, _)
ArgMaxLastFrom(s, i, best) ==
    IF i > Len(s) THEN best - 1
    ELSE IF s[best].nan THEN best - 1
    ELSE IF s[i].nan \/ ~FGt(s[best], s[i]) THEN ArgMaxLastFrom(s, i + 1, i)
    ELSE ArgMaxLastFrom(s, i + 1, best)

ArgMaxLast(s) == ArgMaxLastFrom(s, 2, 1)

\* the scan started one element late: the first score is never a candidate
ArgMaxSkipFirst(s) == IF Len(s) < 2 THEN 0 ELSE ArgMaxFrom(s, 3, 2)

\* the 1-based position returned where the 0-based index is meant
ArgMaxOneBased(s) == ArgMaxFrom(s, 2, 1) + 1

ArgMax(s) == ArgMaxFrom(s, 2, 1)

\* an argmax that answers 0 for an empty array
ArgMaxNeverRaises(s) == FALSE

\* ndarray.argmax() raises ValueError for an empty array
ArgMaxRaises(s) == Len(s) = 0

(* ------------------------------ state --------------------------------- *)

VARIABLES
    weights,         \* the checkpoint behind clip.load("ViT-B/32")
    pc,              \* the cell a top-to-bottom run executes next
    error,           \* the exception the last executed cell ended with
    defined,         \* the names bound in the kernel's globals
    response,        \* requests.get(image_url)
    image_features,  \* (1, d) tensor
    text_prompts,    \* list of str
    text_features,   \* (N, d) tensor
    similarity,      \* 1-d array
    best_match_idx,  \* similarity.argmax(), 0-based
    best_prompt,     \* text_prompts[best_match_idx]
    output           \* the lines the ranking cell has printed

vars == <<weights, pc, error, defined, response, image_features, text_prompts,
          text_features, similarity, best_match_idx, best_prompt, output>>

NoError == "none"
NoResponse == [status_code |-> 0, content |-> "none"]

\* the globals before any cell has run
Fresh ==
    /\ error = NoError
    /\ defined = {}
    /\ response = NoResponse
    /\ image_features = <<>>
    /\ text_prompts = <<>>
    /\ text_features = <<>>
    /\ similarity = <<>>
    /\ best_match_idx = 0
    /\ best_prompt = ""
    /\ output = <<>>

Init ==
    /\ weights \in Checkpoints
    /\ pc = "image"
    /\ Fresh

(* --------------------------- printed lines ---------------------------- *)

\* print(f"Prompt: {prompt} | Similarity score: {score}")
ScoreLine(prompt, score) ==
    [fmt |-> "Prompt: {prompt} | Similarity score: {score}", prompt |-> prompt, score |-> score]

\* print("\nThe most similar text prompt to the input image is:", best_prompt)
BestPromptLine(prompt) ==
    [fmt |-> "\nThe most similar text prompt to the input image is: {prompt}",
     prompt |-> prompt, score |-> F(0)]

\* print("Similarity score:", similarity[best_match_idx])
BestScoreLine(score) ==
    [fmt |-> "Similarity score: {score}", prompt |-> "", score |-> score]

\* the loop printing the scores from the last to the first
ScoreLinesReversed(prompts, scores) ==
    LET z == Zip(prompts, scores)
    IN  [i \in 1..Len(z) |-> ScoreLine(z[i][1], z[Len(z) + 1 - i][2])]

\* the for loop over zip(text_prompts, similarity)
ScoreLines(prompts, scores) ==
    LET z == Zip(prompts, scores)
    IN  [i \in 1..Len(z) |-> ScoreLine(z[i][1], z[i][2])]

(* ------------------------------ cells --------------------------------- *)

\* what requests.get may do: raise (host unreachable), or return a response
\* whose status and body are the server's; the status is not looked at
Unreachable == [status_code |-> 0, content |-> "unreachable"]
RequestOutcomes ==
    {Unreachable} \cup [status_code : {200, 404}, content : {"jpeg", "html"}]

\* response = requests.get(image_url)
\* image = Image.open(BytesIO(response.content)).convert("RGB")
ImageCell ==
    \E r \in RequestOutcomes :
        /\ error' = IF r = Unreachable THEN "ConnectionError"
                    ELSE IF r.content # "jpeg" THEN "UnidentifiedImageError"
                    ELSE NoError
        /\ response' = IF r = Unreachable THEN response ELSE r
        /\ defined' = IF r = Unreachable THEN defined
                      ELSE IF r.content # "jpeg" THEN defined \cup {"response"}
                      ELSE defined \cup {"response", "image"}
        /\ UNCHANGED <<weights, image_features, text_prompts, text_features,
                       similarity, best_match_idx, best_prompt, output>>

\* model, preprocess = clip.load("ViT-B/32", device=device)
LoadCell ==
    \E ok \in BOOLEAN :
        /\ error' = IF ok THEN NoError ELSE "RuntimeError(clip.load)"
        /\ defined' = IF ok THEN defined \cup {"model"} ELSE defined
        /\ UNCHANGED <<weights, response, image_features, text_prompts, text_features,
                       similarity, best_match_idx, best_prompt, output>>

\* image_input = preprocess(image).unsqueeze(0).to(device)
\* image_features = model.encode_image(image_input)
\* image_features = image_features / image_features.norm(dim=-1, keepdim=True)
EncodeImageCell ==
    LET ready == {"image", "model"} \subseteq defined
    IN  /\ error' = IF ready THEN NoError ELSE "NameError"
        /\ image_features' = IF ready THEN Normalize(EncodeImage(weights))
                             ELSE image_features
        /\ defined' = IF ready THEN defined \cup {"image_features"} ELSE defined
        /\ UNCHANGED <<weights, response, text_prompts, text_features,
                       similarity, best_match_idx, best_prompt, output>>

\* text_prompts = [...]
\* text_inputs = clip.tokenize(text_prompts).to(device)
\* text_features = model.encode_text(text_inputs)
\* text_features = text_features / text_features.norm(dim=-1, keepdim=True)
\* The list is bound before anything can raise.  For an empty list tokenize
\* returns a (0, 77) batch; whether the transformer accepts a batch of size
\* zero depends on the torch build, so both outcomes are possible.
TextCell(lists) ==
    \E ps \in lists : \E emptyBatchOk \in (IF ps = <<>> THEN BOOLEAN ELSE {TRUE}) :
        LET err == IF \E i \in 1..Len(ps) : TooLong(ps[i]) THEN "RuntimeError(clip.tokenize)"
                   ELSE IF "model" \notin defined THEN "NameError"
                   ELSE IF ps = <<>> /\ ~emptyBatchOk THEN "RuntimeError(encode_text)"
                   ELSE NoError
        IN  /\ error' = err
            /\ text_prompts' = ps
            /\ text_features' = IF err = NoError
                                THEN Normalize(EncodeText(weights, Tokenize(ps)))
                                ELSE text_features
            /\ defined' = IF err = NoError
                          THEN defined \cup {"text_prompts", "text_features"}
                          ELSE defined \cup {"text_prompts"}
            /\ UNCHANGED <<weights, response, image_features,
                           similarity, best_match_idx, best_prompt, output>>

\* similarity = (image_features @ text_features.T).cpu().numpy().flatten()
\* for prompt, score in zip(text_prompts, similarity): print(...)
\* best_match_idx = similarity.argmax()
\* best_prompt = text_prompts[best_match_idx]
\* print(..., best_prompt); print(..., similarity[best_match_idx])
\* argmax raises ValueError on an empty array; indexing the list past its
\* end raises IndexError.  What was printed before the exception stays.
RankCell ==
    LET ready == {"image_features", "text_features"} \subseteq defined
        sim   == Flatten(MatMulT(image_features, text_features))
        lines == ScoreLines(text_prompts, sim)
        idx   == ArgMax(sim)
        err   == IF ~ready THEN "NameError"
                 ELSE IF ArgMaxRaises(sim) THEN "ValueError(argmax)"
                 ELSE IF idx >= Len(text_prompts) THEN "IndexError(text_prompts)"
                 ELSE NoError
    IN  /\ error' = err
        /\ similarity' = IF ready THEN sim ELSE similarity
        /\ best_match_idx' = IF ready /\ ~ArgMaxRaises(sim) THEN idx ELSE best_match_idx
        /\ best_prompt' = IF err = NoError THEN text_prompts[idx + 1] ELSE best_prompt
        /\ output' = IF ~ready THEN <<>>
                     ELSE IF err # NoError THEN lines
                     ELSE lines \o <<BestPromptLine(text_prompts[idx + 1]),
                                     BestScoreLine(sim[idx + 1])>>
        /\ defined' = IF ~ready THEN defined
                      ELSE IF ArgMaxRaises(sim) THEN defined \cup {"similarity"}
                      ELSE IF err # NoError
                           THEN defined \cup {"similarity", "best_match_idx"}
                      ELSE defined \cup {"similarity", "best_match_idx", "best_prompt"}
        /\ UNCHANGED <<weights, response, image_features, text_prompts, text_features>>

(* ---------------------- the run from top to bottom -------------------- *)

\* an exception ends the run; otherwise the next cell runs
Advance(next) == pc' = IF error' = NoError THEN next ELSE "halted"

RunImageCell == pc = "image" /\ ImageCell /\ Advance("load")
RunLoadCell == pc = "load" /\ LoadCell /\ Advance("encode_image")
RunEncodeImageCell == pc = "encode_image" /\ EncodeImageCell /\ Advance("text")
RunTextCell == pc = "text" /\ TextCell(PromptLists) /\ Advance("rank")
RunRankCell == pc = "rank" /\ RankCell /\ Advance("done")

Next ==
    \/ RunImageCell
    \/ RunLoadCell
    \/ RunEncodeImageCell
    \/ RunTextCell
    \/ RunRankCell

Spec == Init /\ [][Next]_vars

(* ------------------- cells executed in any order ---------------------- *)

\* one checkpoint is followed through the interactive session: the image
\* along the first axis, the two token rows along the two axes
ReferenceCheckpoint ==
    [image |-> <<1, 0>>,
     text  |-> [t \in TokenRows |-> IF t = "a photo of a dog" THEN <<1, 0>> ELSE <<0, 1>>]]

\* the lists tried in the interactive session: the case variant of the
\* dog prompt is left out
CellsPromptLists == SeqsUpTo(Prompts \ {"a photo of a Dog"}, MaxPrompts)

InitCells ==
    /\ weights = ReferenceCheckpoint
    /\ pc = "interactive"
    /\ Fresh

ExecImageCell == pc = "interactive" /\ ImageCell /\ UNCHANGED pc
ExecLoadCell == pc = "interactive" /\ LoadCell /\ UNCHANGED pc
ExecEncodeImageCell == pc = "interactive" /\ EncodeImageCell /\ UNCHANGED pc
ExecTextCell == pc = "interactive" /\ TextCell(CellsPromptLists) /\ UNCHANGED pc
ExecRankCell == pc = "interactive" /\ RankCell /\ UNCHANGED pc

NextCells ==
    \/ ExecImageCell
    \/ ExecLoadCell
    \/ ExecEncodeImageCell
    \/ ExecTextCell
    \/ ExecRankCell

SpecCells == InitCells /\ [][NextCells]_vars

(* ------------------------------ claims -------------------------------- *)

NumPrompts == Len(text_prompts)
\* the 1-based position of the reported best match
Best == best_match_idx + 1
\* the run reached the end of the ranking cell
Ranked == pc = "done"

\* the score of a prompt, recomputed from the checkpoint
ScoreOf(prompt) ==
    Dot(NormalizeRow(weights.image), NormalizeRow(weights.text[Lower(prompt)]))

\* C1: the reported best match is a prompt whose dot product with the image
\* embedding no other prompt's exceeds, it is the first prompt of the list
\* with that score, and the reported best score is the score at its index.
C1_BestMatchIsFirstMaximum ==
    Ranked =>
        /\ Best \in 1..Len(similarity)
        /\ \A j \in 1..Len(similarity) :
              /\ similarity[j] = Dot(image_features[1], text_features[j])
              /\ ~FGt(similarity[j], similarity[Best])
        /\ \A j \in 1..(Best - 1) : similarity[j] # similarity[Best]
        /\ best_prompt = text_prompts[Best]
        /\ output[Len(output) - 1] = BestPromptLine(text_prompts[Best])
        /\ output[Len(output)] = BestScoreLine(similarity[Best])

\* a later prompt ties with the reported one at the maximum
C1_Witness ==
    /\ Ranked
    /\ ~similarity[Best].nan
    /\ \E j \in (Best + 1)..Len(similarity) :
          similarity[j] = similarity[Best] /\ text_prompts[j] # text_prompts[Best]

\* C2: the ranking step produces one score per prompt: as many scores as
\* prompts, the i-th being the score of the i-th prompt.
C2_OneScorePerPrompt ==
    "similarity" \in defined =>
        /\ Len(similarity) = NumPrompts
        /\ \A i \in 1..NumPrompts : similarity[i] = ScoreOf(text_prompts[i])

\* two prompts with the same cleaned text, each with its own score
C2_Witness ==
    /\ "similarity" \in defined
    /\ Len(similarity) >= 2
    /\ Lower(text_prompts[1]) = Lower(text_prompts[2])

\* C3: one line per prompt, in list order, the i-th carrying the i-th
\* prompt and its score; the two best-match lines come after all of them.
C3_LinesInPromptOrderThenBest ==
    Ranked =>
        /\ Len(output) = NumPrompts + 2
        /\ \A i \in 1..NumPrompts :
              output[i] = ScoreLine(text_prompts[i], ScoreOf(text_prompts[i]))
        /\ output[NumPrompts + 1] = BestPromptLine(best_prompt)
        /\ output[NumPrompts + 2] = BestScoreLine(similarity[Best])

\* two prompts with different scores were reported
C3_Witness ==
    /\ Ranked
    /\ NumPrompts >= 2
    /\ similarity[1] # similarity[2]
    /\ Len(output) = NumPrompts + 2

\* the prompt list has been bound, and it is empty
EmptyPromptList == "text_prompts" \in defined /\ text_prompts = <<>>

\* C4 as stated: with an empty prompt list the run fails and no score
\* sequence has been computed or reported before the failure.
C4_EmptyListNoScoreSequence ==
    EmptyPromptList =>
        /\ ~Ranked
        /\ "similarity" \notin defined
        /\ output = <<>>

\* C4 amended: with an empty prompt list the run never completes; it ends
\* with the text encoder's error on the empty batch or, at the latest, with
\* the ValueError of argmax over the empty score array, which has then been
\* computed; no score line and no best-match line is printed, and no best
\* match is bound.
C4_EmptyListFailsWithoutScores ==
    EmptyPromptList =>
        /\ pc \in {"rank", "halted"}
        /\ pc = "halted" => error \in {"RuntimeError(encode_text)", "ValueError(argmax)"}
        /\ similarity = <<>>
        /\ output = <<>>
        /\ defined \cap {"best_match_idx", "best_prompt"} = {}

\* the ranking cell ran on the empty list and argmax raised
C4_Witness ==
    /\ EmptyPromptList
    /\ pc = "halted"
    /\ error = "ValueError(argmax)"
    /\ "similarity" \in defined

\* C5: a request that does not succeed (unreachable, or a status other than
\* 200) ends the run with a fetch error before anything is encoded; a
\* decode error is raised only for a request that succeeded.
C5_FailedRequestIsFetchError ==
    /\ ("response" \in defined /\ response.status_code # 200) =>
          /\ pc = "halted"
          /\ error = "ConnectionError"
          /\ defined \cap {"image_features", "text_features"} = {}
    /\ error = "UnidentifiedImageError" => response.status_code = 200

\* C6: an encoder output of Euclidean norm zero raises an error: no
\* embedding, and so no score, is ever produced from a zero vector.
C6_ZeroNormRaises ==
    /\ "image_features" \in defined => weights.image # <<0, 0>>
    /\ "text_features" \in defined =>
          \A i \in 1..NumPrompts : weights.text[Lower(text_prompts[i])] # <<0, 0>>

Perms(n) == {f \in [1..n -> 1..n] : \A i, j \in 1..n : f[i] = f[j] => i = j}

\* the ranking cell's scores and best match for the prompts in order f
ScoresIn(f) ==
    Flatten(MatMulT(image_features, [i \in 1..NumPrompts |-> text_features[f[i]]]))
BestPromptIn(f) == text_prompts[f[ArgMax(ScoresIn(f)) + 1]]
BestScoreIn(f) == ScoresIn(f)[ArgMax(ScoresIn(f)) + 1]

\* C8 as stated: in whatever order the same prompts are listed, the prompt
\* reported as best match and its score are the same.
C8_OrderDoesNotAffectBest ==
    Ranked =>
        \A f \in Perms(NumPrompts) :
            /\ BestPromptIn(f) = best_prompt
            /\ BestScoreIn(f) = similarity[Best]

\* C8 amended: in whatever order the same prompts are listed, the reported
\* best score is the same, and the reported prompt is the same unless
\* different prompts share that score (then the one listed first is
\* reported).
C8_OrderAffectsOnlyTies ==
    Ranked =>
        \A f \in Perms(NumPrompts) :
            /\ BestScoreIn(f) = similarity[Best]
            /\ (\A j \in 1..NumPrompts :
                    similarity[j] = similarity[Best] => text_prompts[j] = best_prompt)
               => BestPromptIn(f) = best_prompt

\* the best match is not the first prompt, and no other prompt has its score
C8_Witness ==
    /\ Ranked
    /\ Best > 1
    /\ \A j \in 1..NumPrompts : j # Best => similarity[j] # similarity[Best]

Abs(x) == IF x < 0 THEN 0 - x ELSE x

\* the tolerance of the fixed-point format on a squared norm
NormTol == 2 * Scale
SquaredNorm(row) == FAdd(FMul(row[1], row[1]), FMul(row[2], row[2]))
IsUnit(row) ==
    LET n == SquaredNorm(row)
    IN  ~n.nan /\ Abs(n.val - Scale * Scale) <= NormTol

\* C9: every embedding handed to the ranking step has norm 1 within
\* tolerance, and every score lies in [-1, 1] within tolerance.
C9_EmbeddingsAreUnit ==
    /\ "image_features" \in defined => IsUnit(image_features[1])
    /\ "text_features" \in defined =>
          \A i \in 1..Len(text_features) : IsUnit(text_features[i])
    /\ "similarity" \in defined =>
          \A i \in 1..Len(similarity) :
              ~similarity[i].nan /\ Abs(similarity[i].val) <= Scale * Scale + NormTol

\* the norm of a normalised row is off only for the zero vector
UnitUnlessZero == \A v \in RawVecs : v # <<0, 0>> => IsUnit(NormalizeRow(v))

\* C10: whenever the ranking cell is executed, the text embeddings it uses
\* are those of the current prompt list: one row per prompt, row i the
\* embedding of prompt i.
C10_RankingUsesCurrentPrompts ==
    [][(ExecRankCell /\ {"image_features", "text_features"} \subseteq defined) =>
          /\ Len(text_features) = NumPrompts
          /\ \A i \in 1..NumPrompts :
                /\ ~TooLong(text_prompts[i])
                /\ text_features[i] = NormalizeRow(weights.text[Lower(text_prompts[i])])
          /\ error' = NoError => best_prompt' = text_prompts[best_match_idx' + 1]]_vars

====
